---- MODULE Spec2Model ----
(***************************************************************************)
(* Range-check gadget of kimchi (circuits/polynomials/range_check/gate.rs) *)
(* and the dynamic-selector constraints exercised by o1vm/pickles/tests.rs *)
(*                                                                         *)
(* Cells are (row, col).  Field elements are integers modulo the prime P.  *)
(* The prime is scaled down from the Pasta field; it keeps the properties  *)
(* the code relies on: it is prime, larger than every limb, and P - 1 is   *)
(* divisible by the size of every evaluation domain that is built.         *)
(***************************************************************************)
EXTENDS Integers, Sequences, FiniteSets, TLC

VARIABLES
    gates,      \* Vec<CircuitGate> under construction
    next_row,   \* the caller's next_row
    calls,      \* history: what each create_range_check call was given and returned
    cs,         \* the ConstraintSystem, or NoCs before ConstraintSystem::create
    witness,    \* [col -> Seq(field)], the caller's witness columns, or NoWitness
    wsrc,       \* history: how the witness was produced
    result,     \* last verify_range_check call and what it returned, or NoResult
    alphas,     \* the Alphas allocator
    handed,     \* history: the powers each register call handed out
    grid,       \* a free-standing &mut [GateWires] for connect_cell_pair
    linked,     \* history: what the last connect_cell_pair call did
    selrow,     \* one row of the dynamic selector columns
    selcheck,   \* the selector constraints evaluated on selrow
    proof_input, \* ProofInputs: the witness columns handed to prove
    proof,      \* the Proof prove returned, or NoProof
    verif,      \* what verify returned for the proof, or "none"
    mips_con_env, \* the constraints Env the instructions are interpreted in
    acc,        \* the fold's accumulator, then the test's constraints
    iter,       \* the instructions Instruction::iter() has yet to yield
    fold        \* history: position in the fold's closure and its locals

vars == << gates, next_row, calls, cs, witness, wsrc, result,
           alphas, handed, grid, linked, selrow, selcheck,
           proof_input, proof, verif, mips_con_env, acc, iter, fold >>

buildVars  == << gates, next_row, calls, cs >>
verifyVars == << witness, wsrc, result >>
alphaVars  == << alphas, handed >>
gridVars   == << grid, linked >>
selVars    == << selrow, selcheck >>
smallVars  == << proof_input, proof, verif >>
foldVars   == << mips_con_env, acc, iter, fold >>

\* ------------------------------------------------------------------ bounds
MaxRows == 11
MaxGadgets == 2
MaxPad == 1
MaxSeed == 2
MaxLen == 5
MaxPowers == 3
MaxLinks == 3
NumInstructions == 4
SCRATCH_SIZE == 3
MaxConstraints == 3

\* --------------------------------------------------------- program constants
COLUMNS == 15
PERMUTS == 7

\* ------------------------------------------------------------------- field
P == 12289

\* a generator of the multiplicative group of the field
Generator == 11

Add(a, b) == (a + b) % P
Sub(a, b) == (a - b + P) % P
Mul(a, b) == (a * b) % P

RECURSIVE Pow(_, _)
Pow(a, e) ==
    IF e = 0 THEN 1
    ELSE LET h == Pow(a, e \div 2)
         IN  IF e % 2 = 0 THEN Mul(h, h) ELSE Mul(Mul(h, h), a)

Inv(a) == Pow(a, P - 2)

\* ------------------------------------------------------------------ wiring
Wire(r, c) == [row |-> r, col |-> c]

\* Wire::new(row): every cell of the row wired to itself
WireNew(row) == [c \in 0 .. PERMUTS - 1 |-> Wire(row, c)]

connect_cell_pair_one_way(wires, cell1, cell2) ==
    [wires EXCEPT ![cell1[1]][cell1[2]] = wires[cell2[1]][cell2[2]]]

connect_cell_pair_checked(wires, cell1, cell2) ==
    LET tmp == wires[cell1[1]][cell1[2]]
        w1  == [wires EXCEPT ![cell1[1]][cell1[2]] = wires[cell2[1]][cell2[2]]]
    IN  IF \E x \in { cell1, cell2 } : wires[x[1]][x[2]].col # x[2]
        THEN wires
        ELSE [w1 EXCEPT ![cell2[1]][cell2[2]] = tmp]

connect_cell_pair_point_at_each_other(wires, cell1, cell2) ==
    LET first_row == wires[0][0].row
        w1 == [wires EXCEPT ![cell1[1]][cell1[2]] = Wire(first_row + cell2[1], cell2[2])]
    IN  [w1 EXCEPT ![cell2[1]][cell2[2]] = Wire(first_row + cell1[1], cell1[2])]

\* cells are << index into wires, column >>
connect_cell_pair(wires, cell1, cell2) ==
    LET tmp == wires[cell1[1]][cell1[2]]
        w1  == [wires EXCEPT ![cell1[1]][cell1[2]] = wires[cell2[1]][cell2[2]]]
    IN  [w1 EXCEPT ![cell2[1]][cell2[2]] = tmp]

CircuitGate(typ, wires) == [typ |-> typ, wires |-> wires, coeffs |-> << >>]

create_range_check_short(start_row) ==
    LET wires0 == [i \in 0 .. 3 |-> WireNew(start_row + i)]
        wires1 == connect_cell_pair(wires0, << 0, 5 >>, << 3, 1 >>)
        wires2 == connect_cell_pair(wires1, << 0, 6 >>, << 3, 2 >>)
        wires3 == connect_cell_pair(wires2, << 1, 5 >>, << 3, 3 >>)
        wires4 == connect_cell_pair(wires3, << 1, 6 >>, << 3, 4 >>)
        circuit_gates == << CircuitGate("RangeCheck0", wires4[0]),
                            CircuitGate("RangeCheck0", wires4[1]),
                            CircuitGate("RangeCheck1", wires4[2]),
                            CircuitGate("RangeCheck2", wires4[3]) >>
    IN  [next_row |-> start_row + Len(circuit_gates) - 1, gates |-> circuit_gates]

create_range_check(start_row) ==
    LET wires0 == [i \in 0 .. 3 |-> WireNew(start_row + i)]
        wires1 == connect_cell_pair(wires0, << 0, 5 >>, << 3, 1 >>)
        wires2 == connect_cell_pair(wires1, << 0, 6 >>, << 3, 2 >>)
        wires3 == connect_cell_pair(wires2, << 1, 5 >>, << 3, 3 >>)
        wires4 == connect_cell_pair(wires3, << 1, 6 >>, << 3, 4 >>)
        circuit_gates == << CircuitGate("RangeCheck0", wires4[0]),
                            CircuitGate("RangeCheck0", wires4[1]),
                            CircuitGate("RangeCheck1", wires4[2]),
                            CircuitGate("RangeCheck2", wires4[3]) >>
    IN  [next_row |-> start_row + Len(circuit_gates), gates |-> circuit_gates]

\* ------------------------------------------------- domains and polynomials
\* polynomials and evaluation vectors are functions on 0 .. size - 1
RECURSIVE NextPow2From(_, _)
NextPow2From(k, n) == IF k >= n THEN k ELSE NextPow2From(2 * k, n)

\* Radix2EvaluationDomain of the given size: the powers of group_gen
Radix2Domain(size) == [size |-> size, group_gen |-> Pow(Generator, (P - 1) \div size)]

\* EvaluationDomains: the base domain d1, the smallest power of two holding
\* every row, and the extended domain d8, eight times larger
EvaluationDomains(nrows) ==
    LET n == NextPow2From(1, nrows)
    IN  [d1 |-> Radix2Domain(n), d8 |-> Radix2Domain(8 * n)]

DomainPoint(d, i) == Pow(d.group_gen, i % d.size)

RECURSIVE SumUpTo(_, _)
SumUpTo(f, k) == IF k = 0 THEN 0 ELSE Add(SumUpTo(f, k - 1), f[k - 1])

\* Evaluations::from_vec_and_domain(evals, d).interpolate(): the inverse
\* transform resizes the vector to the domain size with zeros
interpolate(evals, d) ==
    LET e(i) == IF i < Len(evals) THEN evals[i + 1] ELSE 0
        winv == Inv(d.group_gen)
    IN  [j \in 0 .. d.size - 1 |->
            Mul(Inv(d.size % P),
                SumUpTo([i \in 0 .. d.size - 1 |->
                            Mul(e(i), Pow(winv, (i * j) % d.size))], d.size))]

RECURSIVE Horner(_, _, _)
Horner(coeff, x, k) ==
    IF k = 0 THEN coeff[0] ELSE Add(Mul(Horner(coeff, x, k - 1), x), coeff[k])

\* value of the polynomial at x
PolyEval(coeff, x) ==
    LET deg == Cardinality(DOMAIN coeff) - 1
        rev == [k \in 0 .. deg |-> coeff[deg - k]]
    IN  Horner(rev, x, deg)

\* DensePolynomial::evaluate_over_domain_by_ref
evaluate_over_domain_by_ref(coeff, d) ==
    [k \in 0 .. d.size - 1 |-> PolyEval(coeff, DomainPoint(d, k))]

\* --------------------------------------------------------------- selectors
circuit_gate_selector_index(typ) ==
    CASE typ = "RangeCheck0" -> 0
      [] typ = "RangeCheck1" -> 1

circuit_gates == << "RangeCheck0", "RangeCheck1" >>

selector_polynomials_any_range_check(gs, domain) ==
    [t \in 1 .. Len(circuit_gates) |->
        LET gate_type == circuit_gates[t]
            coeff == interpolate(
                        [i \in 1 .. Len(gs) |->
                            IF gs[i].typ = gate_type \/ gs[i].typ = "RangeCheck2"
                            THEN 1 ELSE 0],
                        domain.d1)
            eval8 == evaluate_over_domain_by_ref(coeff, domain.d8)
        IN  [coeff |-> coeff, eval8 |-> eval8]]

selector_polynomials(gs, domain) ==
    [t \in 1 .. Len(circuit_gates) |->
        LET gate_type == circuit_gates[t]
            coeff == interpolate(
                        [i \in 1 .. Len(gs) |->
                            IF gs[i].typ = gate_type THEN 1 ELSE 0],
                        domain.d1)
            eval8 == evaluate_over_domain_by_ref(coeff, domain.d8)
        IN  [coeff |-> coeff, eval8 |-> eval8]]

\* ConstraintSystem::create as far as the range check reads it
ConstraintSystemCreate(gs) ==
    LET domain == EvaluationDomains(Len(gs))
    IN  [gates |-> gs,
         domain |-> domain,
         range_check_selector_polys |-> selector_polynomials(gs, domain)]

NoCs == [gates |-> << >>]

\* ------------------------------------------------------------------ alphas
\* Alphas: next_power and the range (start, count) registered for each type
AlphasDefault == [next_power |-> 0, mapping |-> {}]

Registered(a, ty) == \E m \in a.mapping : m.ty = ty

register_no_advance(a, ty, powers) ==
    [next_power |-> a.next_power,
     mapping |-> a.mapping \cup { [ty |-> ty, start |-> a.next_power, count |-> powers] }]

\* Alphas::register(ty, powers); registering a type twice panics
register(a, ty, powers) ==
    [next_power |-> a.next_power + powers,
     mapping |-> a.mapping \cup { [ty |-> ty, start |-> a.next_power, count |-> powers] }]

\* Alphas::get_exponents(ty, num): the first num powers of the type's range
get_exponents(a, ty, num) ==
    LET range == CHOOSE m \in a.mapping : m.ty = ty
    IN  [i \in 1 .. num |-> range.start + i - 1]

\* ------------------------------------------------------ range check witness
\* an 88-bit limb is three words << w0, w1, w2 >> of 30, 30 and 28 bits, lowest
\* first; its field element is the number reduced modulo P
Bit(v, i) == (v[(i \div 30) + 1] \div (2 ^ (i % 30))) % 2

\* bits lo .. lo + width - 1 of v
RECURSIVE Slice(_, _, _)
Slice(v, lo, width) ==
    IF width = 0 THEN 0 ELSE Bit(v, lo) + 2 * Slice(v, lo + 1, width - 1)

FieldOf(v) ==
    Add(Add(v[1] % P, Mul(v[2] % P, Pow(2, 30))), Mul(v[3] % P, Pow(2, 60)))

\* column layout of a RangeCheck0 row for the 88-bit limb v:
\*   0: v   1..6: 12-bit limbs vp0..vp5 (vp0 highest)   7..14: crumbs vc0..vc7
RangeCheck0Row(v) ==
    [c \in 0 .. COLUMNS - 1 |->
        IF c = 0 THEN FieldOf(v)
        ELSE IF c <= 6 THEN Slice(v, 88 - 12 * c, 12)
        ELSE Slice(v, 2 * (14 - c), 2)]

\* bit offset of crumb v2c_k of the RangeCheck1 limb, k in 0 .. 19
CrumbOffset(k) == 2 * (19 - k)

\* RangeCheck1 row for the limb v:
\*   0: v   1: unused   2: crumb v2c0   3..6: 12-bit limbs v2p0..v2p3
\*   7..14: crumbs v2c1..v2c8
RangeCheck1Row(v) ==
    [c \in 0 .. COLUMNS - 1 |->
        IF c = 0 THEN FieldOf(v)
        ELSE IF c = 1 THEN 0
        ELSE IF c = 2 THEN Slice(v, CrumbOffset(0), 2)
        ELSE IF c <= 6 THEN Slice(v, 88 - 12 * (c - 2), 12)
        ELSE Slice(v, CrumbOffset(c - 6), 2)]

\* the row after it:
\*   0: crumb v2c9   1..4: copies of v0p4, v0p5, v1p4, v1p5
\*   5..14: crumbs v2c10..v2c19
RangeCheck2Row(v0, v1, v2) ==
    [c \in 0 .. COLUMNS - 1 |->
        IF c = 0 THEN Slice(v2, CrumbOffset(9), 2)
        ELSE IF c = 1 THEN RangeCheck0Row(v0)[5]
        ELSE IF c = 2 THEN RangeCheck0Row(v0)[6]
        ELSE IF c = 3 THEN RangeCheck0Row(v1)[5]
        ELSE IF c = 4 THEN RangeCheck0Row(v1)[6]
        ELSE Slice(v2, CrumbOffset(c + 5), 2)]

\* range_check::create_witness(v0, v1, v2): four rows, column-major
create_witness(v0, v1, v2) ==
    [c \in 0 .. COLUMNS - 1 |->
        << RangeCheck0Row(v0)[c], RangeCheck0Row(v1)[c],
           RangeCheck1Row(v2)[c], RangeCheck2Row(v0, v1, v2)[c] >>]

\* array_init(|_| vec![PallasField::from(x); len])
ConstantWitness(x, len) == [c \in 0 .. COLUMNS - 1 |-> [i \in 1 .. len |-> x]]

\* ---------------------------------------------------- range check constraints
\* x is a crumb: x (x - 1) (x - 2) (x - 3)
Crumb(x) == Mul(Mul(x, Sub(x, 1)), Mul(Sub(x, 2), Sub(x, 3)))

TwoTo(e) == Pow(2, e)

\* constraints of RangeCheck0 on the row curr: eight crumbs, then the sum
RangeCheck0Constraints(curr) ==
    [i \in 1 .. 9 |->
        IF i <= 8 THEN Crumb(curr[6 + i])
        ELSE Sub(SumUpTo([c \in 0 .. 13 |->
                            IF c < 6 THEN Mul(curr[c + 1], TwoTo(88 - 12 * (c + 1)))
                            ELSE Mul(curr[c + 1], TwoTo(2 * (14 - (c + 1))))], 14),
                 curr[0])]

\* the cell holding crumb v2c_k: << 0 for curr / 1 for next, column >>
CrumbCell(k) ==
    IF k = 0 THEN << 0, 2 >>
    ELSE IF k <= 8 THEN << 0, 6 + k >>
    ELSE IF k = 9 THEN << 1, 0 >>
    ELSE << 1, k - 5 >>

\* constraints of RangeCheck1 on the rows curr and next: twenty crumbs, then
\* the sum
RangeCheck1Constraints(curr, next) ==
    LET crumb(k) == IF CrumbCell(k)[1] = 0 THEN curr[CrumbCell(k)[2]]
                    ELSE next[CrumbCell(k)[2]]
    IN  [i \in 1 .. 21 |->
            IF i <= 20 THEN Crumb(crumb(i - 1))
            ELSE Sub(Add(SumUpTo([c \in 0 .. 3 |->
                                    Mul(curr[c + 3], TwoTo(88 - 12 * (c + 1)))], 4),
                         SumUpTo([k \in 0 .. 19 |->
                                    Mul(crumb(k), TwoTo(CrumbOffset(k)))], 20)),
                     curr[0])]

circuit_gate_constraint_count(typ) ==
    CASE typ = "RangeCheck0" -> 9
      [] typ = "RangeCheck1" -> 21

\* the challenge alpha drawn from the seeded generator
Alpha == 3643

\* Argument::combined_constraints: sum of alpha^power_i * constraint_i over the
\* powers the type registered
CombineWithAlphas(a, typ, cons) ==
    LET powers == get_exponents(a, typ, circuit_gate_constraint_count(typ))
    IN  SumUpTo([i \in 0 .. Len(powers) - 1 |->
                    Mul(Pow(Alpha, powers[i + 1]), cons[i + 1])], Len(powers))

\* circuit_gate_constraints(typ, alphas) evaluated on the rows curr and next
circuit_gate_constraints(typ, a, curr, next) ==
    CASE typ = "RangeCheck0" -> CombineWithAlphas(a, typ, RangeCheck0Constraints(curr))
      [] typ = "RangeCheck1" -> CombineWithAlphas(a, typ, RangeCheck1Constraints(curr, next))

\* ------------------------------------------------------- verify_range_check
Rows(w) == Len(w[0])

\* the padded witness at row i of the domain, as a row
RowAt(w, i) == [c \in 0 .. COLUMNS - 1 |-> IF i < Rows(w) THEN w[c][i + 1] ELSE 0]

\* cs.perm_aggreg(&witness, ..) succeeds: every cell holds the value of the
\* cell it is wired to (the aggregation's final value is one)
perm_aggreg_ok(c, w) ==
    \A i \in 0 .. Len(c.gates) - 1, col \in 0 .. PERMUTS - 1 :
        LET to == c.gates[i + 1].wires[col]
        IN  RowAt(w, i)[col] = RowAt(w, to.row)[to.col]

MaskedConstraintAt_first_selector(typ, a, c, w, i) ==
    LET sel == c.range_check_selector_polys[1].eval8[8 * i]
    IN  IF sel = 0 THEN 0
        ELSE Mul(sel, circuit_gate_constraints(typ, a, RowAt(w, i),
                                               RowAt(w, (i + 1) % c.domain.d1.size)))

\* the selector-masked combined constraint of typ at row i of the base domain;
\* a zero selector value makes the product zero whatever the constraint is
MaskedConstraintAt(typ, a, c, w, i) ==
    LET sel == c.range_check_selector_polys[circuit_gate_selector_index(typ) + 1].eval8[8 * i]
    IN  IF sel = 0 THEN 0
        ELSE Mul(sel, circuit_gate_constraints(typ, a, RowAt(w, i),
                                               RowAt(w, (i + 1) % c.domain.d1.size)))

\* constraints.evaluations(&env).interpolate().divide_by_vanishing_poly(d1)
\* leaves a zero remainder: the masked constraint vanishes on the base domain
ZeroRemainder(typ, a, c, w) ==
    \A i \in 0 .. c.domain.d1.size - 1 : MaskedConstraintAt(typ, a, c, w, i) = 0

\* Result<(), String>: Err(typ, what) stands for "Invalid <typ> <what>"
Ok == [ok |-> TRUE, typ |-> "none", error |-> "none"]
Err(typ, what) == [ok |-> FALSE, typ |-> typ, error |-> what]
Panic == [ok |-> FALSE, typ |-> "none", error |-> "panic"]

\* the zero test run on the row given as argument only
ZeroRemainderAt(typ, a, c, w, row) ==
    MaskedConstraintAt(typ, a, c, w, row % c.domain.d1.size) = 0

verify_range_check_on_given_row(gate, row, w, c) ==
    IF gate.typ = "RangeCheck2" THEN Ok
    ELSE IF Rows(w) > c.domain.d1.size THEN Panic
    ELSE IF ~perm_aggreg_ok(c, w)
    THEN Err(gate.typ, "constraint - permutation failed")
    ELSE LET a == register(AlphasDefault, gate.typ, circuit_gate_constraint_count(gate.typ))
         IN  IF ZeroRemainderAt(gate.typ, a, c, w, row)
             THEN Ok
             ELSE Err(gate.typ, "constraint")

verify_range_check_constraints_first(gate, row, w, c) ==
    IF gate.typ = "RangeCheck2" THEN Ok
    ELSE IF Rows(w) > c.domain.d1.size THEN Panic
    ELSE LET a == register(AlphasDefault, gate.typ, circuit_gate_constraint_count(gate.typ))
         IN  IF ~ZeroRemainder(gate.typ, a, c, w)
             THEN Err(gate.typ, "constraint")
             ELSE IF ~perm_aggreg_ok(c, w)
                  THEN Err(gate.typ, "constraint - permutation failed")
                  ELSE Ok

verify_range_check_no_special_case(gate, row, w, c) ==
    IF Rows(w) > c.domain.d1.size THEN Panic
    ELSE IF ~perm_aggreg_ok(c, w)
    THEN Err(gate.typ, "constraint - permutation failed")
    ELSE IF gate.typ = "RangeCheck2" THEN Ok
    ELSE LET a == register(AlphasDefault, gate.typ, circuit_gate_constraint_count(gate.typ))
         IN  IF ZeroRemainder(gate.typ, a, c, w)
             THEN Ok
             ELSE Err(gate.typ, "constraint")

verify_range_check_wrong_message(gate, row, w, c) ==
    IF gate.typ = "RangeCheck2" THEN Ok
    ELSE IF Rows(w) > c.domain.d1.size THEN Panic
    ELSE IF ~perm_aggreg_ok(c, w)
    THEN Err(gate.typ, "constraint - permutation failed")
    ELSE LET a == register(AlphasDefault, gate.typ, circuit_gate_constraint_count(gate.typ))
         IN  IF ZeroRemainder(gate.typ, a, c, w)
             THEN Ok
             ELSE Err(gate.typ, "constraint - permutation failed")

\* the witness is cloned and padded with zeros to the size of d1 (RowAt reads
\* the padded clone); a witness longer than d1 makes checked_sub fail
verify_range_check(gate, row, w, c) ==
    IF gate.typ = "RangeCheck2" THEN Ok
    ELSE IF Rows(w) > c.domain.d1.size THEN Panic
    ELSE IF ~perm_aggreg_ok(c, w)
    THEN Err(gate.typ, "constraint - permutation failed")
    ELSE LET a == register(AlphasDefault, gate.typ, circuit_gate_constraint_count(gate.typ))
         IN  IF ZeroRemainder(gate.typ, a, c, w)
             THEN Ok
             ELSE Err(gate.typ, "constraint")

\* ------------------------------------------------- idle values of the parts
NoWitness == [c \in 0 .. COLUMNS - 1 |-> << >>]
NoSource == [kind |-> "none", corrupted |-> {}]
NoResult == [gate |-> 0, row |-> 0, res |-> [ok |-> FALSE, typ |-> "none", error |-> "none"]]
VerifyIdle == witness = NoWitness /\ wsrc = NoSource /\ result = NoResult
AlphasIdle == alphas = AlphasDefault /\ handed = {}
NoLink     == [calls |-> 0]
GridIdle   == grid = [i \in 0 .. 3 |-> WireNew(i)] /\ linked = NoLink
SelIdle    == selrow = [i \in 1 .. NumInstructions |-> 0] /\ selcheck = << >>
NoInput    == [scratch |-> << >>, instruction_counter |-> << >>,
               error |-> << >>, selector |-> << >>]
NoProof    == [made |-> FALSE]
NoVerif    == [done |-> FALSE, ok |-> FALSE]
SmallIdle  == proof_input = NoInput /\ proof = NoProof /\ verif = NoVerif
\* Env::default(): no selector, no constraint
EnvDefault == [selector |-> << >>, constraints |-> << >>]
NoFold     == [pc |-> "idle"]
FoldIdle   == mips_con_env = EnvDefault /\ acc = << >> /\ iter = {} /\ fold = NoFold

\* ------------------------------------------------------ circuit construction
BuildInit ==
    /\ gates = << >>
    /\ next_row = 0
    /\ calls = << >>
    /\ cs = NoCs

\* let (next_row, gates) = create_range_check(next_row), appended to the circuit
CreateRangeCheck ==
    /\ cs = NoCs
    /\ Len(gates) + 4 <= MaxRows
    /\ LET r == create_range_check(next_row)
       IN  /\ gates' = gates \o r.gates
           /\ next_row' = r.next_row
           /\ calls' = Append(calls, [start_row |-> next_row, ret |-> r])
    /\ UNCHANGED << cs, verifyVars, alphaVars, gridVars, selVars, smallVars, foldVars >>

\* gates.push(CircuitGate::zero(Wire::new(next_row))); next_row += 1
PushZeroGate ==
    /\ cs = NoCs
    /\ Len(gates) < MaxRows
    /\ gates' = Append(gates, CircuitGate("Zero", WireNew(next_row)))
    /\ next_row' = next_row + 1
    /\ UNCHANGED << calls, cs, verifyVars, alphaVars, gridVars, selVars, smallVars, foldVars >>

\* ConstraintSystem::create(gates, ...)
CreateConstraintSystem ==
    /\ cs = NoCs
    /\ Len(gates) > 0
    /\ cs' = ConstraintSystemCreate(gates)
    /\ UNCHANGED << gates, next_row, calls, verifyVars, alphaVars, gridVars, selVars, smallVars, foldVars >>

Init == BuildInit /\ VerifyIdle /\ AlphasIdle /\ GridIdle /\ SelIdle /\ SmallIdle /\ FoldIdle

Next == CreateRangeCheck \/ PushZeroGate \/ CreateConstraintSystem

Spec == Init /\ [][Next]_vars

\* ------------------------------------------------------------- verification
\* g gadgets chained from row 0 through the returned next_row
RECURSIVE ChainGadgets(_)
ChainGadgets(g) ==
    IF g = 0 THEN [next_row |-> 0, gates |-> << >>]
    ELSE LET before == ChainGadgets(g - 1)
             r == create_range_check(before.next_row)
         IN  [next_row |-> r.next_row, gates |-> before.gates \o r.gates]

\* followed by k zero gates, as create_test_constraint_system pads the circuit
TestCircuit(g, k) ==
    LET chain == ChainGadgets(g)
    IN  [next_row |-> chain.next_row + k,
         gates |-> chain.gates \o
                     [i \in 1 .. k |-> CircuitGate("Zero", WireNew(chain.next_row + i - 1))]]

\* the 88-bit limbs the witnesses are made from
TestValue(k) ==
    << (k * 305419896) % (2 ^ 30), (k * 286331153) % (2 ^ 30), (k * 19088743) % (2 ^ 28) >>

\* the columns copied over one another by the tests: << to, from >>
TestCopies == { << 0, 7 >>, << 13, 1 >>, << 8, 0 >> }

VerifyInit ==
    \E g \in 1 .. MaxGadgets, k \in 0 .. MaxPad :
        LET circuit == TestCircuit(g, k)
        IN  /\ gates = circuit.gates
            /\ next_row = circuit.next_row
            /\ calls = << >>
            /\ cs = ConstraintSystemCreate(circuit.gates)
            /\ VerifyIdle

\* let witness = range_check::create_witness(v0, v1, v2)
CreateWitness ==
    /\ wsrc = NoSource
    /\ \E s \in 0 .. MaxSeed :
        /\ witness' = create_witness(TestValue(s), TestValue(s + 1), TestValue(s + 2))
        /\ wsrc' = [kind |-> "valid", corrupted |-> {}]
    /\ UNCHANGED << buildVars, result, alphaVars, gridVars, selVars, smallVars, foldVars >>

\* let witness = array_init(|_| vec![x; len]), x zero or one
CreateConstantWitness ==
    /\ wsrc = NoSource
    /\ \E x \in { 0, 1 }, len \in 1 .. MaxLen :
        /\ witness' = ConstantWitness(x, len)
        /\ wsrc' = [kind |-> IF x = 0 THEN "zero" ELSE "one", corrupted |-> {}]
    /\ UNCHANGED << buildVars, result, alphaVars, gridVars, selVars, smallVars, foldVars >>

\* witness[col][row] += PallasField::one(), on a witness not yet corrupted
InvalidateIncrement ==
    /\ wsrc # NoSource
    /\ result = NoResult
    /\ wsrc.corrupted = {}
    /\ \E col \in 0 .. COLUMNS - 1, row \in 0 .. Rows(witness) - 1 :
        /\ witness' = [witness EXCEPT ![col][row + 1] = Add(@, 1)]
        /\ wsrc' = [wsrc EXCEPT !.corrupted = { << row, col >> }]
    /\ UNCHANGED << buildVars, result, alphaVars, gridVars, selVars, smallVars, foldVars >>

\* witness[to][row] = witness[from][row] (+ one for << 8, 0 >>)
InvalidateCopy ==
    /\ wsrc # NoSource
    /\ result = NoResult
    /\ wsrc.corrupted = {}
    /\ \E cp \in TestCopies, row \in 0 .. Rows(witness) - 1 :
        LET value == IF cp = << 8, 0 >> THEN Add(witness[cp[2]][row + 1], 1)
                     ELSE witness[cp[2]][row + 1]
        IN  /\ value # witness[cp[1]][row + 1]
            /\ witness' = [witness EXCEPT ![cp[1]][row + 1] = value]
            /\ wsrc' = [wsrc EXCEPT !.corrupted = { << row, cp[1] >> }]
    /\ UNCHANGED << buildVars, result, alphaVars, gridVars, selVars, smallVars, foldVars >>

RowArgs(i) == { 0, i - 1 }

\* cs.gates[i - 1].verify_range_check(row, &witness, &cs) on a range check gate
VerifyRangeCheck ==
    /\ wsrc # NoSource
    /\ result = NoResult
    /\ \E i \in 1 .. Len(cs.gates) : \E row \in RowArgs(i) :
        /\ cs.gates[i].typ \in { "RangeCheck0", "RangeCheck1", "RangeCheck2" }
        /\ result' = [gate |-> i, row |-> row,
                      res |-> verify_range_check(cs.gates[i], row, witness, cs)]
    /\ UNCHANGED << buildVars, witness, wsrc, alphaVars, gridVars, selVars, smallVars, foldVars >>

\* the caller has read the result
Return ==
    /\ result # NoResult
    /\ result' = NoResult
    /\ UNCHANGED << buildVars, witness, wsrc, alphaVars, gridVars, selVars, smallVars, foldVars >>

InitVerify == VerifyInit /\ AlphasIdle /\ GridIdle /\ SelIdle /\ SmallIdle /\ FoldIdle

NextVerify ==
    \/ CreateWitness
    \/ CreateConstantWitness
    \/ InvalidateIncrement
    \/ InvalidateCopy
    \/ VerifyRangeCheck
    \/ Return

SpecVerify == InitVerify /\ [][NextVerify]_vars

\* --------------------------------------------------------- alphas allocator
ArgumentTypes == { "RangeCheck0", "RangeCheck1", "Permutation", "Lookup" }

\* the count a family registers: a gate registers its constraint count
PowersOf(ty) ==
    IF ty \in { "RangeCheck0", "RangeCheck1" }
    THEN { circuit_gate_constraint_count(ty) }
    ELSE 1 .. MaxPowers

\* alphas.register(ty, powers), for a type not yet registered
Register ==
    /\ \E ty \in ArgumentTypes :
        /\ ~Registered(alphas, ty)
        /\ \E powers \in PowersOf(ty) : alphas' = register(alphas, ty, powers)
    /\ UNCHANGED << handed, buildVars, verifyVars, gridVars, selVars, smallVars, foldVars >>

\* alphas.get_exponents(ty, count), all the powers the type registered
GetExponents ==
    /\ \E m \in alphas.mapping :
        /\ \A h \in handed : h.ty # m.ty
        /\ handed' = handed \cup
                { [ty |-> m.ty, count |-> m.count,
                   powers |-> get_exponents(alphas, m.ty, m.count)] }
    /\ UNCHANGED << alphas, buildVars, verifyVars, gridVars, selVars, smallVars, foldVars >>

InitAlphas == BuildInit /\ VerifyIdle /\ AlphasIdle /\ GridIdle /\ SelIdle /\ SmallIdle /\ FoldIdle

NextAlphas == Register \/ GetExponents

SpecAlphas == InitAlphas /\ [][NextAlphas]_vars

\* ------------------------------------------------------- free-standing wiring
\* the cells create_range_check links, as indexes into a four-row wires slice
LinkCells == { << 0, 5 >>, << 0, 6 >>, << 1, 5 >>, << 1, 6 >>,
               << 3, 1 >>, << 3, 2 >>, << 3, 3 >>, << 3, 4 >> }

SelfLooped(wires, cell) == wires[cell[1]][cell[2]] = Wire(cell[1], cell[2])

\* connect_cell_pair(&mut wires, cell1, cell2) on any two cells; the function
\* returns the unit value
ConnectCellPair ==
    /\ linked.calls < MaxLinks
    /\ \E cell1 \in LinkCells, cell2 \in LinkCells :
        /\ grid' = connect_cell_pair(grid, cell1, cell2)
        /\ linked' = [calls |-> linked.calls + 1,
                      cell1 |-> cell1, cell2 |-> cell2,
                      before |-> grid,
                      returned |-> "unit"]
    /\ UNCHANGED << buildVars, verifyVars, alphaVars, selVars, smallVars, foldVars >>

InitWire == BuildInit /\ VerifyIdle /\ AlphasIdle /\ GridIdle /\ SelIdle /\ SmallIdle /\ FoldIdle

NextWire == ConnectCellPair

SpecWire == InitWire /\ [][NextWire]_vars

\* --------------------------------------------------- dynamic selector columns
\* expressions over the selector columns of one row
Const(v) == [op |-> "const", v |-> v]
Cell(i) == [op |-> "cell", i |-> i]
BinOp(op, l, r) == [op |-> op, l |-> l, r |-> r]

RECURSIVE Eval(_, _)
Eval(e, row) ==
    CASE e.op = "const" -> e.v
      [] e.op = "cell" -> row[e.i]
      [] e.op = "add" -> Add(Eval(e.l, row), Eval(e.r, row))
      [] e.op = "sub" -> Sub(Eval(e.l, row), Eval(e.r, row))
      [] e.op = "mul" -> Mul(Eval(e.l, row), Eval(e.r, row))

Max(a, b) == IF a >= b THEN a ELSE b

\* Expr::degree(1, 0)
RECURSIVE Degree(_)
Degree(e) ==
    CASE e.op = "const" -> 0
      [] e.op = "cell" -> 1
      [] e.op \in { "add", "sub" } -> Max(Degree(e.l), Degree(e.r))
      [] e.op = "mul" -> Degree(e.l) + Degree(e.r)

RECURSIVE SumOfSelectors(_)
SumOfSelectors(k) ==
    IF k = 0 THEN Const(0) ELSE BinOp("add", SumOfSelectors(k - 1), Cell(k))

get_selector_constraints_no_sum ==
    [i \in 1 .. NumInstructions + 1 |->
        IF i <= NumInstructions
        THEN BinOp("mul", BinOp("sub", Cell(i), Const(1)), Cell(i))
        ELSE BinOp("sub", Cell(1), Cell(1))]

\* get_selector_constraints(): a boolean check per selector, then the check
\* that the selectors sum to one
get_selector_constraints ==
    [i \in 1 .. NumInstructions + 1 |->
        IF i <= NumInstructions
        THEN BinOp("mul", BinOp("sub", Cell(i), Const(1)), Cell(i))
        ELSE BinOp("sub", SumOfSelectors(NumInstructions), Const(1))]

\* values a selector cell is given
SelectorValues == { 0, 1, 2, P - 1 }

\* the prover writes a selector cell of the row
SetSelector ==
    /\ \E i \in 1 .. NumInstructions, v \in SelectorValues :
        selrow' = [selrow EXCEPT ![i] = v]
    /\ selcheck' = << >>
    /\ UNCHANGED << buildVars, verifyVars, alphaVars, gridVars, smallVars, foldVars >>

\* the selector constraints are evaluated on the row
EvaluateSelectorConstraints ==
    /\ selcheck = << >>
    /\ selcheck' = [i \in 1 .. Len(get_selector_constraints) |->
                        Eval(get_selector_constraints[i], selrow)]
    /\ UNCHANGED << selrow, buildVars, verifyVars, alphaVars, gridVars, smallVars, foldVars >>

InitSel == BuildInit /\ VerifyIdle /\ AlphasIdle /\ GridIdle /\ SelIdle /\ SmallIdle /\ FoldIdle

NextSel == SetSelector \/ EvaluateSelectorConstraints

SpecSel == InitSel /\ [][NextSel]_vars

\* ------------------------------------------------- dynamic selector engine
\* columns of the engine: Column::Relation(i) and Column::DynamicSelector(i)
Relation(i) == << "Relation", i >>
DynamicSelector(i) == << "DynamicSelector", i >>

\* relation columns are the scratch cells, the instruction counter, the error
RelationColumns == { Relation(i) : i \in 0 .. SCRATCH_SIZE + 1 }
SelectorColumns == { DynamicSelector(j) : j \in 0 .. NumInstructions - 1 }
EngineColumns == RelationColumns \cup SelectorColumns

\* the values of column col of the inputs, one per row; the column of
\* DynamicSelector(j) is 1 on the rows whose selected instruction is j
ColumnOf(inputs, col) ==
    IF col[1] = "Relation"
    THEN IF col[2] < SCRATCH_SIZE THEN inputs.scratch[col[2]]
         ELSE IF col[2] = SCRATCH_SIZE THEN inputs.instruction_counter
         ELSE inputs.error
    ELSE [r \in 1 .. Len(inputs.selector) |->
            IF inputs.selector[r] = col[2] THEN 1 ELSE 0]

\* row r (from 0) of the inputs, read by column
RowOf(inputs, r) == [col \in EngineColumns |-> ColumnOf(inputs, col)[r + 1]]

\* polynomials are functions on 0 .. length - 1
PolyLen(a) == Cardinality(DOMAIN a)
Coeff(a, k) == IF k \in DOMAIN a THEN a[k] ELSE 0

\* coefficient k of the expression with every cell replaced by the polynomial
\* of its column
RECURSIVE ExprCoeff(_, _, _)
ExprCoeff(e, polys, k) ==
    CASE e.op = "const" -> IF k = 0 THEN e.v ELSE 0
      [] e.op = "cell" -> Coeff(polys[e.i], k)
      [] e.op = "add" -> Add(ExprCoeff(e.l, polys, k), ExprCoeff(e.r, polys, k))
      [] e.op = "sub" -> Sub(ExprCoeff(e.l, polys, k), ExprCoeff(e.r, polys, k))
      [] e.op = "mul" ->
            SumUpTo([i \in 0 .. k |->
                        Mul(ExprCoeff(e.l, polys, i), ExprCoeff(e.r, polys, k - i))],
                    k + 1)

\* the constraints combined with powers of alpha, as a polynomial
CombinePolys(constraints, polys, n) ==
    LET len(k) == Degree(constraints[k]) * (n - 1) + 1
        longest == CHOOSE k \in 1 .. Len(constraints) :
                        \A m \in 1 .. Len(constraints) : len(m) <= len(k)
    IN  [c \in 0 .. len(longest) - 1 |->
            SumUpTo([k \in 0 .. Len(constraints) - 1 |->
                        Mul(Pow(Alpha, k), ExprCoeff(constraints[k + 1], polys, c))],
                    Len(constraints))]

\* sum of the coefficients c[i + m * n] for m from the given one on
RECURSIVE FoldFrom(_, _, _, _)
FoldFrom(c, i, n, m) ==
    IF i + m * n >= PolyLen(c) THEN 0
    ELSE Add(c[i + m * n], FoldFrom(c, i, n, m + 1))

\* divide_by_vanishing_poly: c = quotient * (X^n - 1) + remainder
divide_by_vanishing_poly(c, n) ==
    [quotient |-> [i \in 0 .. Max(PolyLen(c) - n, 1) - 1 |-> FoldFrom(c, i, n, 1)],
     remainder |-> [i \in 0 .. n - 1 |-> FoldFrom(c, i, n, 0)]]

\* the evaluation point drawn from the transcript
Zeta == 5281

\* the proof made of the column polynomials: the constraints are combined
\* with powers of alpha and divided by the vanishing polynomial of d1, the
\* remainder is dropped; every column and the quotient are opened at zeta
ProofOf(polys, constraints, n) ==
    LET made(combined) ==
            [made |-> TRUE,
             zeta_evaluations |-> [col \in EngineColumns |-> PolyEval(polys[col], Zeta)],
             quotient_evaluation |->
                PolyEval(divide_by_vanishing_poly(combined, n).quotient, Zeta)]
    IN  CHOOSE pr \in { made(combined) :
                            combined \in { CombinePolys(constraints, polys, n) } } : TRUE

\* prove(domain, srs, inputs, constraints, rng): the columns are interpolated
\* over d1 (once each), then the proof is made of the polynomials
prove(domain, inputs, constraints) ==
    CHOOSE pr \in { ProofOf(polys, constraints, domain.d1.size) :
                        polys \in { [col \in EngineColumns |->
                                        interpolate(ColumnOf(inputs, col), domain.d1)] } } :
        TRUE

\* verify(domain, srs, constraints, proof): the combined constraint on the
\* opened values equals the opened quotient times the vanishing polynomial
verify(domain, constraints, pr) ==
    SumUpTo([k \in 0 .. Len(constraints) - 1 |->
                Mul(Pow(Alpha, k), Eval(constraints[k + 1], pr.zeta_evaluations))],
            Len(constraints))
        = Mul(pr.quotient_evaluation, Sub(Pow(Zeta, domain.d1.size), 1))

\* ------------------------------------------------------- test_small_circuit
\* EvaluationDomains::create(8), SRS::create(8)
SmallDomainSize == 8

\* the ProofInputs of the test: eight rows, every scratch cell and the
\* instruction counter one, the error -(SCRATCH_SIZE + 1), the selector zero
SmallCircuitInput ==
    [scratch |-> [i \in 0 .. SCRATCH_SIZE - 1 |-> [r \in 1 .. SmallDomainSize |-> 1]],
     instruction_counter |-> [r \in 1 .. SmallDomainSize |-> 1],
     error |-> [r \in 1 .. SmallDomainSize |-> Sub(0, (SCRATCH_SIZE + 1) % P)],
     selector |-> [r \in 1 .. SmallDomainSize |-> 0]]

RECURSIVE SumOfRelations(_)
SumOfRelations(n) ==
    IF n = 0 THEN Const(0) ELSE BinOp("add", SumOfRelations(n - 1), Cell(Relation(n - 1)))

SmallCircuitExpr_short ==
    BinOp("mul", SumOfRelations(SCRATCH_SIZE + 1), Cell(DynamicSelector(0)))

\* expr = literal(0) + sum of Relation(i), i < SCRATCH_SIZE + 2, then
\* expr *= DynamicSelector(0)
SmallCircuitExpr ==
    BinOp("mul", SumOfRelations(SCRATCH_SIZE + 2), Cell(DynamicSelector(0)))

SmallInit ==
    /\ proof_input = SmallCircuitInput
    /\ proof = NoProof
    /\ verif = NoVerif

\* the amounts one relation cell is moved by
Deltas == { 1, P - 1 }

\* a prover with another witness: one relation cell of one row differs
ChangeRelationCell ==
    /\ proof = NoProof
    /\ \A col \in RelationColumns :
            ColumnOf(proof_input, col) = ColumnOf(SmallCircuitInput, col)
    /\ \E i \in 0 .. SCRATCH_SIZE + 1, r \in 1 .. SmallDomainSize, d \in Deltas :
        proof_input' =
            IF i < SCRATCH_SIZE
            THEN [proof_input EXCEPT !.scratch[i][r] = Add(@, d)]
            ELSE IF i = SCRATCH_SIZE
            THEN [proof_input EXCEPT !.instruction_counter[r] = Add(@, d)]
            ELSE [proof_input EXCEPT !.error[r] = Add(@, d)]
    /\ UNCHANGED << proof, verif, buildVars, verifyVars, alphaVars, gridVars,
                    selVars, foldVars >>

\* a prover with another witness: one row selects another instruction
SelectOtherInstruction ==
    /\ proof = NoProof
    /\ proof_input.selector = SmallCircuitInput.selector
    /\ \E r \in 1 .. SmallDomainSize, j \in 1 .. NumInstructions - 1 :
        proof_input' = [proof_input EXCEPT !.selector[r] = j]
    /\ UNCHANGED << proof, verif, buildVars, verifyVars, alphaVars, gridVars,
                    selVars, foldVars >>

\* let proof = prove(domain, &srs, proof_input, &[expr.clone()], &mut rng)
Prove ==
    /\ proof = NoProof
    /\ proof' = prove(EvaluationDomains(SmallDomainSize), proof_input,
                      << SmallCircuitExpr >>)
    /\ UNCHANGED << proof_input, verif, buildVars, verifyVars, alphaVars,
                    gridVars, selVars, foldVars >>

\* let verif = verify(domain, &srs, &vec![expr.clone()], &proof)
Verify ==
    /\ proof # NoProof
    /\ verif = NoVerif
    /\ verif' = [done |-> TRUE,
                 ok |-> verify(EvaluationDomains(SmallDomainSize),
                               << SmallCircuitExpr >>, proof)]
    /\ UNCHANGED << proof_input, proof, buildVars, verifyVars, alphaVars,
                    gridVars, selVars, foldVars >>

InitSmall == BuildInit /\ VerifyIdle /\ AlphasIdle /\ GridIdle /\ SelIdle
             /\ SmallInit /\ FoldIdle

NextSmall == ChangeRelationCell \/ SelectOtherInstruction \/ Prove \/ Verify

SpecSmall == InitSmall /\ [][NextSmall]_vars

\* ---------------------------------------- constraints of all the instructions
\* pickles::MAXIMUM_DEGREE_CONSTRAINTS
MAXIMUM_DEGREE_CONSTRAINTS == 6

Instructions == 0 .. NumInstructions - 1

\* the constraints instruction instr adds when it is interpreted: how many,
\* and the degree of the k-th
ConstraintCount(instr) == 1 + (instr % MaxConstraints)
ConstraintDegree(instr, k) == 1 + ((instr + k) % (MAXIMUM_DEGREE_CONSTRAINTS - 1))

RECURSIVE ProductOfScratch(_)
ProductOfScratch(d) ==
    IF d = 1 THEN Cell(Relation(0))
    ELSE BinOp("mul", ProductOfScratch(d - 1), Cell(Relation((d - 1) % SCRATCH_SIZE)))

\* the k-th constraint of instr: a product of scratch cells minus a value of
\* the instruction's own
InstructionConstraints(instr) ==
    [k \in 1 .. ConstraintCount(instr) |->
        BinOp("sub", ProductOfScratch(ConstraintDegree(instr, k)),
                     Const(instr * MaxConstraints + k))]

RECURSIVE SumOfCounts(_)
SumOfCounts(n) == IF n = 0 THEN 0 ELSE SumOfCounts(n - 1) + ConstraintCount(n - 1)

\* pickles::TOTAL_NUMBER_OF_CONSTRAINTS: the constraints of every instruction
\* and the selector constraints
TOTAL_NUMBER_OF_CONSTRAINTS == SumOfCounts(NumInstructions) + NumInstructions + 1

\* interpret_instruction(&mut env, instr): the selector of instr is
\* activated and the constraints of instr are added
interpret_instruction(env, instr) ==
    [selector |-> << Cell(DynamicSelector(instr)) >>,
     constraints |-> env.constraints \o InstructionConstraints(instr)]

\* env.get_selector(): the activated selector; there is one after an
\* instruction was interpreted
get_selector(env) == env.selector[1]

\* env.get_constraints(): a copy of the constraints added so far
get_constraints(env) == env.constraints

reset_selector_only(env) == [env EXCEPT !.selector = << >>]

\* env.reset(): no selector, no constraint
reset(env) == [selector |-> << >>, constraints |-> << >>]

constraints_with_selector_of_first(selector, cons) ==
    [k \in 1 .. Len(cons) |-> BinOp("mul", Cell(DynamicSelector(0)), cons[k])]

\* get_constraints().into_iter().map(|c| selector.clone() * c).collect()
constraints_with_selector(selector, cons) ==
    [k \in 1 .. Len(cons) |-> BinOp("mul", selector, cons[k])]

\* position in the closure of the fold; the instructions folded so far
FoldAt(pc, instr, selector, done) ==
    [pc |-> pc, instr |-> instr, selector |-> selector, done |-> done]

FoldInit ==
    /\ mips_con_env = EnvDefault
    /\ acc = << >>
    /\ iter = Instructions
    /\ fold = FoldAt("next", 0, << >>, << >>)

\* the iterator yields an instruction (the order is that of the enum's
\* declaration: any order is taken) and the closure interprets it
InterpretInstruction ==
    /\ fold.pc = "next"
    /\ \E instr \in iter :
        /\ iter' = iter \ { instr }
        /\ mips_con_env' = interpret_instruction(mips_con_env, instr)
        /\ fold' = FoldAt("get_selector", instr, << >>, fold.done)
    /\ UNCHANGED << acc, buildVars, verifyVars, alphaVars, gridVars, selVars, smallVars >>

\* let selector = mips_con_env.get_selector()
GetSelector ==
    /\ fold.pc = "get_selector"
    /\ fold' = FoldAt("get_constraints", fold.instr,
                      << get_selector(mips_con_env) >>, fold.done)
    /\ UNCHANGED << mips_con_env, acc, iter, buildVars, verifyVars, alphaVars,
                    gridVars, selVars, smallVars >>

\* acc.extend(constraints_with_selector)
GetConstraints ==
    /\ fold.pc = "get_constraints"
    /\ acc' = acc \o constraints_with_selector(fold.selector[1],
                                               get_constraints(mips_con_env))
    /\ fold' = FoldAt("reset", fold.instr, fold.selector, Append(fold.done, fold.instr))
    /\ UNCHANGED << mips_con_env, iter, buildVars, verifyVars, alphaVars,
                    gridVars, selVars, smallVars >>

\* mips_con_env.reset(); the closure returns acc
Reset ==
    /\ fold.pc = "reset"
    /\ mips_con_env' = reset(mips_con_env)
    /\ fold' = FoldAt("next", fold.instr, << >>, fold.done)
    /\ UNCHANGED << acc, iter, buildVars, verifyVars, alphaVars, gridVars,
                    selVars, smallVars >>

\* constraints.extend(mips_con_env.get_selector_constraints())
ExtendSelectorConstraints ==
    /\ fold.pc = "next"
    /\ iter = {}
    /\ acc' = acc \o get_selector_constraints
    /\ fold' = FoldAt("done", fold.instr, << >>, fold.done)
    /\ UNCHANGED << mips_con_env, iter, buildVars, verifyVars, alphaVars,
                    gridVars, selVars, smallVars >>

InitFold == BuildInit /\ VerifyIdle /\ AlphasIdle /\ GridIdle /\ SelIdle
            /\ SmallIdle /\ FoldInit

NextFold ==
    \/ InterpretInstruction
    \/ GetSelector
    \/ GetConstraints
    \/ Reset
    \/ ExtendSelectorConstraints

SpecFold == InitFold /\ [][NextFold]_vars

\* ----------------------------------------------------------------- claims
\* the wire the returned gates give the cell (row, col), row absolute
WireOf(c, row, col) == c.ret.gates[row - c.start_row + 1].wires[col]

\* C1: create_range_check(start_row) returns next_row = start_row + 4 and four
\* gates tagged RangeCheck0, RangeCheck0, RangeCheck1, RangeCheck2 with empty
\* coefficients; gadgets chained through next_row occupy disjoint rows, each
\* gadget's gates sitting at its own rows of the circuit.
C1_GadgetShape ==
    \A k \in 1 .. Len(calls) :
        LET c == calls[k]
        IN  /\ c.ret.next_row = c.start_row + 4
            /\ Len(c.ret.gates) = 4
            /\ [i \in 1 .. 4 |-> c.ret.gates[i].typ]
                 = << "RangeCheck0", "RangeCheck0", "RangeCheck1", "RangeCheck2" >>
            /\ \A i \in 1 .. 4 : c.ret.gates[i].coeffs = << >>
            /\ \A i \in 1 .. 4, col \in 0 .. PERMUTS - 1 :
                    c.ret.gates[i].wires[col].row \in c.start_row .. c.start_row + 3
            /\ \A i \in 1 .. 4 : gates[c.start_row + i] = c.ret.gates[i]
            /\ \A j \in 1 .. k - 1 :
                    /\ calls[j].ret.next_row <= c.start_row
                    /\ (calls[j].start_row .. calls[j].ret.next_row - 1)
                         \cap (c.start_row .. c.ret.next_row - 1) = {}

C1_Witness ==
    /\ Len(calls) = 2
    /\ calls[1].start_row = 1
    /\ calls[2].start_row > 5

\* the cell a cell of the gadget is meant to be linked to (itself when unlinked)
LinkedTo(s, row, col) ==
    CASE row = s     /\ col = 5 -> Wire(s + 3, 1)
      [] row = s     /\ col = 6 -> Wire(s + 3, 2)
      [] row = s + 1 /\ col = 5 -> Wire(s + 3, 3)
      [] row = s + 1 /\ col = 6 -> Wire(s + 3, 4)
      [] row = s + 3 /\ col = 1 -> Wire(s, 5)
      [] row = s + 3 /\ col = 2 -> Wire(s, 6)
      [] row = s + 3 /\ col = 3 -> Wire(s + 1, 5)
      [] row = s + 3 /\ col = 4 -> Wire(s + 1, 6)
      [] OTHER -> Wire(row, col)

\* C2: in the gates create_range_check(start_row) returns, exactly the four
\* pairs (s,5)<->(s+3,1), (s,6)<->(s+3,2), (s+1,5)<->(s+3,3), (s+1,6)<->(s+3,4)
\* are linked, each as a 2-cycle in absolute rows; every other cell of the
\* four rows, row s+2 included, is wired to itself.
C2_GadgetWiring ==
    \A k \in 1 .. Len(calls) :
        LET c == calls[k]
            s == c.start_row
            cells == (s .. s + 3) \X (0 .. PERMUTS - 1)
            moved == { x \in cells : WireOf(c, x[1], x[2]) # Wire(x[1], x[2]) }
        IN  /\ \A x \in cells : WireOf(c, x[1], x[2]) = LinkedTo(s, x[1], x[2])
            /\ \A x \in moved :
                    LET y == WireOf(c, x[1], x[2])
                    IN  WireOf(c, y.row, y.col) = Wire(x[1], x[2])
            /\ Cardinality(moved) = 8
            /\ \A col \in 0 .. PERMUTS - 1 : WireOf(c, s + 2, col) = Wire(s + 2, col)

C2_Witness ==
    /\ Len(calls) = 2
    /\ calls[2].start_row = 5
    /\ gates[6].wires[5] = Wire(8, 1)

\* the indicator the selector of type typ is built from
Indicator(typ, i) ==
    IF i < Len(cs.gates) /\ cs.gates[i + 1].typ = typ THEN 1 ELSE 0

\* C7: selector_polynomials returns one selector per type of << RangeCheck0,
\* RangeCheck1 >>, at the position circuit_gate_selector_index gives, and none
\* for RangeCheck2; at the base-domain point of row i the selector of type T is
\* 1 when gates[i].typ = T and 0 on every other row, padding rows included, in
\* coefficient form and in the d8 evaluation form; at most one selector is 1.
C7_SelectorIndicator ==
    cs # NoCs =>
        LET sel == cs.range_check_selector_polys
            d1 == cs.domain.d1
        IN  /\ Len(sel) = 2
            /\ \A typ \in { "RangeCheck0", "RangeCheck1" }, i \in 0 .. d1.size - 1 :
                    LET sp == sel[circuit_gate_selector_index(typ) + 1]
                    IN  /\ PolyEval(sp.coeff, DomainPoint(d1, i)) = Indicator(typ, i)
                        /\ sp.eval8[8 * i] = Indicator(typ, i)
            /\ \A i \in 0 .. d1.size - 1 :
                    Cardinality({ t \in 1 .. Len(sel) : sel[t].eval8[8 * i] = 1 }) <= 1

C7_Witness ==
    /\ cs # NoCs
    /\ Len(cs.gates) = 6
    /\ cs.domain.d1.size = 8
    /\ cs.gates[3].typ = "RangeCheck0"
    /\ cs.gates[5].typ = "RangeCheck2"
    /\ cs.range_check_selector_polys[1].eval8[16] = 1
    /\ cs.range_check_selector_polys[2].eval8[24] = 1

\* a verify_range_check call on a gate of one of the given types has returned
Verified(types) == result # NoResult /\ cs.gates[result.gate].typ \in types

VerifiedType == cs.gates[result.gate].typ

\* the witness as created: a decomposition of three limbs, or all zero
ValidWitness ==
    /\ wsrc.corrupted = {}
    /\ wsrc.kind \in { "valid", "zero" }
    /\ Rows(witness) <= cs.domain.d1.size

\* C3: for every valid 3-limb decomposition, the all-zero witness included,
\* verify_range_check returns Ok on every row of the gadget: both RangeCheck0
\* rows, the RangeCheck1 row and the RangeCheck2 row.
C3_ValidWitnessVerifies ==
    (Verified({ "RangeCheck0", "RangeCheck1", "RangeCheck2" }) /\ ValidWitness)
        => result.res = Ok

C3_Witness ==
    /\ Verified({ "RangeCheck1" })
    /\ wsrc = [kind |-> "valid", corrupted |-> {}]
    /\ witness[6][1] # 0
    /\ witness[3][3] # 0
    /\ witness[9][3] # 0
    /\ Len(cs.gates) > Rows(witness)
    /\ result.res = Ok

\* value the padded witness holds in the cell (row, col)
CellValue(row, col) == RowAt(witness, row)[col]

\* some cell wired to another cell holds a value different from that cell's
CopyConstraintBroken ==
    \E i \in 0 .. Len(cs.gates) - 1, col \in 0 .. PERMUTS - 1 :
        LET to == cs.gates[i + 1].wires[col]
        IN  to # Wire(i, col) /\ CellValue(i, col) # CellValue(to.row, to.col)

\* the gate-local identities of the verified type hold on every row of the type
LocalIdentitiesHold(typ) ==
    LET a == register(AlphasDefault, typ, circuit_gate_constraint_count(typ))
        n == cs.domain.d1.size
    IN  \A i \in 0 .. Len(cs.gates) - 1 :
            cs.gates[i + 1].typ = typ =>
                circuit_gate_constraints(typ, a, RowAt(witness, i),
                                         RowAt(witness, (i + 1) % n)) = 0

\* C4: on a RangeCheck0 or RangeCheck1 gate the copy constraints are checked
\* before the gate-local identities: when a wired cell differs from the cell
\* it is wired to the result is "Invalid <type> constraint - permutation
\* failed", also when the gate-local identity is broken as well.
C4_PermutationFirst ==
    (/\ Verified({ "RangeCheck0", "RangeCheck1" })
     /\ Rows(witness) <= cs.domain.d1.size
     /\ CopyConstraintBroken)
        => result.res = Err(VerifiedType, "constraint - permutation failed")

C4_Witness ==
    /\ Verified({ "RangeCheck0" })
    /\ wsrc = [kind |-> "valid", corrupted |-> { << 0, 5 >> }]
    /\ CopyConstraintBroken
    /\ ~LocalIdentitiesHold("RangeCheck0")
    /\ result.res = Err("RangeCheck0", "constraint - permutation failed")

\* cells of the gadget at row s the identities of typ read (the unused cell
\* of the RangeCheck1 row and the copies of the last row are not read)
ReadBy(typ, row, col) ==
    \E s \in { 4 * k : k \in 0 .. Len(cs.gates) \div 4 } :
        /\ s + 3 < Len(cs.gates)
        /\ cs.gates[s + 1].typ = "RangeCheck0"
        /\ IF typ = "RangeCheck0" THEN row \in { s, s + 1 }
           ELSE \/ row = s + 2 /\ col # 1
                \/ row = s + 3 /\ col \notin 1 .. 4

\* C5: on a RangeCheck0 or RangeCheck1 gate and a witness whose copy
\* constraints hold, verify_range_check returns Ok exactly when the combined
\* constraint of the type is zero on every row of the type, and otherwise
\* "Invalid <type> constraint"; the all-one witness and a witness changed in
\* one cell that is not wired and that the type's identities read get this
\* error.
C5_ConstraintError ==
    (/\ Verified({ "RangeCheck0", "RangeCheck1" })
     /\ Rows(witness) <= cs.domain.d1.size
     /\ ~CopyConstraintBroken)
        => /\ (result.res = Ok) <=> LocalIdentitiesHold(VerifiedType)
           /\ result.res # Ok => result.res = Err(VerifiedType, "constraint")
           /\ wsrc.kind = "one" => result.res = Err(VerifiedType, "constraint")
           /\ \A cell \in wsrc.corrupted :
                (wsrc.kind = "valid" /\ ReadBy(VerifiedType, cell[1], cell[2]))
                    => result.res = Err(VerifiedType, "constraint")

C5_Witness ==
    /\ Verified({ "RangeCheck1" })
    /\ wsrc = [kind |-> "valid", corrupted |-> { << 3, 9 >> }]
    /\ witness[9][4] = 4
    /\ ~CopyConstraintBroken
    /\ result.res = Err("RangeCheck1", "constraint")

\* C6: on a RangeCheck2 gate verify_range_check returns Ok for every witness:
\* one that breaks copy constraints or limb ranges, one longer than the
\* domain; nothing is padded, aggregated or evaluated.
C6_RangeCheck2Passes ==
    Verified({ "RangeCheck2" }) => result.res = Ok

C6_Witness ==
    /\ Verified({ "RangeCheck2" })
    /\ Rows(witness) > cs.domain.d1.size
    /\ wsrc.kind = "one"
    /\ wsrc.corrupted = { << 0, 5 >> }
    /\ CopyConstraintBroken
    /\ result.res = Ok

\* powers handed out for a family, as a set
PowerSet(h) == { h.powers[i] : i \in 1 .. Len(h.powers) }

\* C8: the allocator never hands the same power of alpha to two constraints:
\* the powers returned for distinct registered families are pairwise disjoint,
\* and each family receives exactly as many distinct powers as it registered.
C8_AlphasDisjoint ==
    /\ \A h \in handed :
        /\ Len(h.powers) = h.count
        /\ Cardinality(PowerSet(h)) = h.count
    /\ \A h1 \in handed, h2 \in handed :
        h1.ty # h2.ty => PowerSet(h1) \cap PowerSet(h2) = {}

C8_Witness ==
    /\ \E h1 \in handed, h2 \in handed :
        /\ h1.ty = "RangeCheck0" /\ h1.powers[1] > 0
        /\ h2.ty = "RangeCheck1" /\ h2.powers[1] > 0
    /\ Cardinality(handed) = 4

\* the last connect_cell_pair call was given a cell that was already linked
LinkedBefore ==
    /\ linked # NoLink
    /\ \E x \in { linked.cell1, linked.cell2 } : ~SelfLooped(linked.before, x)

\* C9 as stated: linking a cell that is already linked is reported as a
\* WiringPrecondition error and the wiring is left as it was.
C9_Original ==
    LinkedBefore => (linked.returned = "WiringPrecondition" /\ grid = linked.before)

\* C9 as amended: connect_cell_pair reports nothing; whatever the two cells
\* hold, it returns the unit value and the two wire entries are swapped, so
\* linking two distinct cells of which one is already linked changes the
\* wiring silently.
C9_SilentSwap ==
    linked # NoLink =>
        LET c1 == linked.cell1
            c2 == linked.cell2
        IN  /\ linked.returned = "unit"
            /\ grid[c1[1]][c1[2]] = linked.before[c2[1]][c2[2]]
            /\ grid[c2[1]][c2[2]] = linked.before[c1[1]][c1[2]]
            /\ (LinkedBefore /\ c1 # c2) => grid # linked.before

C9_Witness ==
    /\ LinkedBefore
    /\ linked.cell1 # linked.cell2
    /\ SelfLooped(linked.before, linked.cell2)
    /\ grid # linked.before

\* exactly one selector of the row is 1 and all the others are 0
OneHot(row) ==
    \E i \in 1 .. Len(row) :
        row[i] = 1 /\ \A j \in 1 .. Len(row) : j # i => row[j] = 0

\* C10: the selector constraints are one boolean check per instruction
\* selector plus one sum-to-one check, each of degree 1 or 2, and a row
\* satisfies all of them exactly when one selector is 1 and the others are 0.
C10_SelectorConstraints ==
    /\ Len(get_selector_constraints) = NumInstructions + 1
    /\ \A i \in 1 .. Len(get_selector_constraints) :
            Degree(get_selector_constraints[i]) \in { 1, 2 }
    /\ Cardinality({ i \in 1 .. Len(get_selector_constraints) :
                        Degree(get_selector_constraints[i]) = 1 }) = 1
    /\ selcheck # << >> =>
            ((\A i \in 1 .. Len(selcheck) : selcheck[i] = 0) <=> OneHot(selrow))

C10_Witness ==
    /\ selcheck # << >>
    /\ selrow[2] = 1
    /\ OneHot(selrow)
    /\ \A i \in 1 .. Len(selcheck) : selcheck[i] = 0

\* a row of booleans that is not one-hot is refused by the sum check alone
C10_WitnessTwoActive ==
    /\ selcheck # << >>
    /\ selrow[1] = 1 /\ selrow[2] = 1
    /\ \A i \in 1 .. NumInstructions : selcheck[i] = 0
    /\ selcheck[NumInstructions + 1] # 0

\* the constraint is zero on every row of the domain
SatisfiedOnDomain(inputs) ==
    \A r \in 0 .. SmallDomainSize - 1 : Eval(SmallCircuitExpr, RowOf(inputs, r)) = 0

\* C11: with the single constraint (sum of the SCRATCH_SIZE + 2 relation
\* columns) * DynamicSelector(0), the witness whose scratch cells and
\* instruction counter are 1, whose error is -(SCRATCH_SIZE + 1) and whose
\* selected instruction is 0 on every row satisfies the constraint on every
\* row, and verify returns true for the proof prove makes of it; so does any
\* witness that satisfies the constraint on every row.
C11_SmallCircuitVerifies ==
    /\ proof_input = SmallCircuitInput => SatisfiedOnDomain(proof_input)
    /\ (verif.done /\ SatisfiedOnDomain(proof_input)) => verif.ok

C11_Witness ==
    /\ verif.done
    /\ proof_input = SmallCircuitInput
    /\ RowOf(proof_input, 7)[DynamicSelector(0)] = 1
    /\ RowOf(proof_input, 7)[Relation(SCRATCH_SIZE + 1)] = P - (SCRATCH_SIZE + 1)
    /\ proof.zeta_evaluations[DynamicSelector(0)] = 1
    /\ verif.ok

\* a witness breaking the constraint on a row that selects instruction 0 is
\* refused
C11_WitnessRefused ==
    /\ verif.done
    /\ ~SatisfiedOnDomain(proof_input)
    /\ ~verif.ok

\* a row that selects another instruction is not constrained
C11_WitnessMasked ==
    /\ verif.done
    /\ proof_input.selector[3] = 1
    /\ proof_input.error[3] # SmallCircuitInput.error[3]
    /\ verif.ok

\* the constraints of the instructions of done, in that order, each multiplied
\* by the selector of its instruction
RECURSIVE MaskedConstraintsOf(_)
MaskedConstraintsOf(done) ==
    IF done = << >> THEN << >>
    ELSE LET instr == done[Len(done)]
         IN  MaskedConstraintsOf(SubSeq(done, 1, Len(done) - 1)) \o
                [k \in 1 .. ConstraintCount(instr) |->
                    BinOp("mul", Cell(DynamicSelector(instr)),
                                 InstructionConstraints(instr)[k])]

\* the part of the list the instructions contributed
InstructionPart ==
    IF fold.pc = "done" THEN SubSeq(acc, 1, Len(acc) - Len(get_selector_constraints))
    ELSE acc

RECURSIVE MaxDegree(_, _)
MaxDegree(cons, n) ==
    IF n = 0 THEN 0 ELSE Max(MaxDegree(cons, n - 1), Degree(cons[n]))

C12_WitnessLater ==
    /\ fold # NoFold
    /\ fold.pc = "reset"
    /\ fold.done = << 2, 1 >>
    /\ Len(acc) = ConstraintCount(2) + ConstraintCount(1)

\* the cells of the four-row wires slice
GridCells == (0 .. 3) \X (0 .. PERMUTS - 1)

\* the cell the wiring sends a cell to
Target(wires, cell) == << wires[cell[1]][cell[2]].row, wires[cell[1]][cell[2]].col >>

RECURSIVE OrbitWalk(_, _, _)
OrbitWalk(wires, cell, seen) ==
    IF cell \in seen \/ cell \notin GridCells THEN seen
    ELSE OrbitWalk(wires, Target(wires, cell), seen \cup { cell })

\* the permutation orbit of a cell
Orbit(wires, cell) == OrbitWalk(wires, cell, {})

\* the wiring is a permutation of the cells
IsPermutation(wires) == { Target(wires, x) : x \in GridCells } = GridCells

\* C13: connect_cell_pair swaps the wire entries of the two given cells and
\* changes no other entry; the wiring stays a permutation of the cells; given
\* two distinct cells of one orbit it splits that orbit into two smaller
\* ones, one holding each cell; the two cells form a 2-cycle afterwards
\* exactly when both were self-looped before.
C13_SwapFragments ==
    linked # NoLink =>
        LET c1 == linked.cell1
            c2 == linked.cell2
            before == linked.before
        IN  /\ \A x \in GridCells \ { c1, c2 } : grid[x[1]][x[2]] = before[x[1]][x[2]]
            /\ grid[c1[1]][c1[2]] = before[c2[1]][c2[2]]
            /\ grid[c2[1]][c2[2]] = before[c1[1]][c1[2]]
            /\ IsPermutation(grid)
            /\ (c1 # c2 /\ c2 \in Orbit(before, c1)) =>
                    /\ Orbit(grid, c1) \cap Orbit(grid, c2) = {}
                    /\ Orbit(grid, c1) \cup Orbit(grid, c2) = Orbit(before, c1)
            /\ c1 # c2 =>
                    ((Target(grid, c1) = c2 /\ Target(grid, c2) = c1)
                        <=> (SelfLooped(before, c1) /\ SelfLooped(before, c2)))

C13_Witness ==
    /\ linked # NoLink
    /\ linked.calls = 3
    /\ linked.cell1 # linked.cell2
    /\ Cardinality(Orbit(linked.before, linked.cell1)) = 3
    /\ linked.cell2 \in Orbit(linked.before, linked.cell1)
    /\ Cardinality(Orbit(grid, linked.cell1)) = 2
    /\ Cardinality(Orbit(grid, linked.cell2)) = 1

\* the gates of the type the call was made on
GatesOfVerifiedType == { j \in 1 .. Len(cs.gates) : cs.gates[j].typ = VerifiedType }

\* the calls made on gates of that type: << gate, row >>
CallsOnVerifiedType ==
    UNION { { << j, row >> : row \in RowArgs(j) } : j \in GatesOfVerifiedType }

\* they are put in a cycle, by gate and then by row: the call after a call
CallBefore(x, y) == x[1] < y[1] \/ (x[1] = y[1] /\ x[2] < y[2])

NextCall(x) ==
    LET later == { y \in CallsOnVerifiedType : CallBefore(x, y) }
        from == IF later = {} THEN CallsOnVerifiedType ELSE later
    IN  CHOOSE y \in from : \A z \in from : z = y \/ CallBefore(y, z)

\* the next call of the cycle returns, on the same witness and constraint
\* system, what the call returned; the cycle goes through every gate of the
\* type with every row it is called with, so all these calls return the same
SameResultOnType ==
    Verified({ "RangeCheck0", "RangeCheck1", "RangeCheck2" }) =>
        LET call == NextCall(<< result.gate, result.row >>)
        IN  verify_range_check(cs.gates[call[1]], call[2], witness, cs) = result.res

\* a call was made in the step
CallMade == result = NoResult /\ result' # NoResult

\* the call writes neither the witness nor the constraint system
VerifyLeavesInputs ==
    CallMade => (witness' = witness /\ cs' = cs /\ wsrc' = wsrc)

====
